---- MODULE Spec2Model ----
(***************************************************************************)
(* Model of the two servers of the repository:                             *)
(*   - the trade-store aggregator (src/unnamed/part_000): the trades and   *)
(*     symbols tables, insertTrade, the per-exchange normalisation of      *)
(*     runBackfill, the backfill job rows and the runBackfill runner;      *)
(*   - the minute-bin server (src/server/index.js): minute_bins, upsertBin,*)
(*     ingestTrades and runBackfillJob.                                    *)
(*                                                                         *)
(* Conventions.  A raw venue record is [nid, ts, p, q, side]: nid is the   *)
(* venue-native trade id the branch reads (t.a, t.id, t.tradeId,           *)
(* t.trade_id), ts the venue timestamp (t.T, t.time, t.ts,                 *)
(* t.trade_time_ms), p the price, q the quantity, side the venue's side.   *)
(* Of a huobi record nid and ts are the id and ts of the entry that holds  *)
(* the trade, from which fetchHuobiTrades makes the trade's ts.            *)
(* The value 0 (and "" for side) is an absent or falsy field, which is     *)
(* what the code's `x || fallback` tests.  Date.now() is a nondeterministic *)
(* read from NowSet; Math.random() returns a value it never returned       *)
(* before (the number of the draw).                                        *)
(***************************************************************************)
EXTENDS Integers, Sequences, FiniteSets, TLC

VARIABLES
    trades,        \* table trades: set of rows, primary key id
    symbols,       \* table symbols: function symbol -> last_seen_ts
    writers,       \* store specification: writer -> <<symbol, exchange>>
    sent,          \* store specification: the insertTrade calls made, in order
    insertThrew,   \* store specification: did the last insertTrade call throw to its caller
    draws,         \* how many times Math.random() has been called
    backfill_jobs, \* table backfill_jobs: function job id -> row
    jobHist,       \* job id -> the successive persisted states of its row
    run,           \* job id -> the locals and position of its runBackfill call
    lim,           \* the requests and venue responses a specification admits
    minute_bins,   \* minute-bin server, table minute_bins: function id -> row
    jobs,          \* minute-bin server, table jobs: function job id -> row
    mbRun,         \* minute-bin server: job id -> locals and position of runBackfillJob
    mbLog,         \* minute-bin server: the batches handed to ingestTrades, in order
    topClusters,   \* the GET /api/top-clusters requests answered: query and response
    priceReqs,     \* GET /api/current-price: request id -> position, venues asked, response
    topZones       \* minute-bin server: the GET /api/top-zones request answered

tableVars == <<trades, symbols, draws>>
driverVars == <<writers, sent, insertThrew>>
jobVars == <<backfill_jobs, jobHist, run>>
mbVars == <<minute_bins, jobs, mbRun, mbLog>>
apiVars == <<topClusters, priceReqs, topZones>>

vars == <<trades, symbols, writers, sent, insertThrew, draws, backfill_jobs, jobHist, run, lim,
          minute_bins, jobs, mbRun, mbLog, topClusters, priceReqs, topZones>>

----------------------------------------------------------------------------
(* Input domains *)

MaxCalls == 2
MaxFaults == 1

Symbols == {"BTCUSDT", "ETHUSDT"}

\* the exchanges runBackfill has a branch for
Exchanges == {"binance", "binance-spot", "okx", "bybit", "kucoin", "bitget", "gate", "huobi"}

Writers == {"w1", "w2"}

NowSet == {5000, 6000}
Now0 == CHOOSE n \in NowSet : \A m \in NowSet : n <= m

RawA == [nid |-> 1, ts |-> 1000, p |-> 100, q |-> 1, side |-> "buy"]
RawB == [nid |-> 2, ts |-> 1000, p |-> 101, q |-> 2, side |-> "sell"]
RawC == [nid |-> 0, ts |-> 0, p |-> 100, q |-> 1, side |-> ""]
RawD == [nid |-> 3, ts |-> 2000, p |-> 0, q |-> 0, side |-> ""]
RawRecords == {RawA, RawB, RawC, RawD}

Faults == {"none", "trades", "symbols"}

\* the minute-bin server before any request
MbIdle ==
    /\ minute_bins = <<>>
    /\ jobs = <<>>
    /\ mbRun = <<>>
    /\ mbLog = <<>>

\* the read endpoints before any request
ApiIdle ==
    /\ topClusters = <<>>
    /\ priceReqs = <<>>
    /\ topZones = <<>>

\* lim of a specification that takes no backfill request
NoRequests == [maxJobs |-> 0, symbols |-> {}, exchanges |-> {}, batches |-> {}, faults |-> {}]

----------------------------------------------------------------------------
(* Normalisation: the trade object each branch of runBackfill builds *)

NaN == -1

Or2(a, b) == IF a # 0 THEN a ELSE b

\* parseFloat of a field: an absent field parses to NaN
ParseFloat(x) == IF x = 0 THEN NaN ELSE x

\* fetchHuobiTrades stamps every trade of an entry with
\* entry.id || entry.ts || Date.now(); of a huobi record nid is the entry's
\* id and ts the entry's ts.  The other connectors return the venue's records
ConnectorShape(e, t, now) ==
    IF e = "huobi" THEN [t EXCEPT !.ts = Or2(t.nid, Or2(t.ts, now))] ELSE t

\* the venue field the branch puts in the identity
VenueKey(e, t) ==
    IF e \in {"binance", "binance-spot", "bitget", "gate"} THEN t.nid ELSE t.ts

TradeId(s, e, t, rnd) ==
    <<s, e, IF VenueKey(e, t) # 0 THEN <<"v", VenueKey(e, t)>> ELSE <<"r", rnd>> >>

TradePrice(e, t) ==
    IF e = "bitget" THEN t.p ELSE ParseFloat(t.p)

TradeQty(e, t) ==
    IF e = "binance-spot" THEN ParseFloat(t.q) ELSE t.q

TradeSide(e, t) == IF t.side = "sell" THEN "sell" ELSE "buy"

Normalize(e, s, t, rnd, now) ==
    [id       |-> TradeId(s, e, t, rnd),
     exchange |-> e,
     symbol   |-> s,
     price    |-> TradePrice(e, t),
     qty      |-> TradeQty(e, t),
     side     |-> TradeSide(e, t),
     ts       |-> Or2(t.ts, now)]

\* does the branch call Math.random() for the connector's record t
NeedsRnd(e, t) == VenueKey(e, t) = 0

----------------------------------------------------------------------------
(* The Trade Store: insertTrade *)

Ids(tr) == {x.id : x \in tr}

\* variant: INSERT OR REPLACE, the new row overwrites the stored one
InsertOrReplace(tr, trade) ==
    {x \in tr : x.id # trade.id} \cup {trade}

\* INSERT OR IGNORE INTO trades
InsertOrIgnore(tr, trade) ==
    IF trade.id \in Ids(tr) THEN tr ELSE tr \cup {trade}

\* variant: the upsert without its WHERE guard
UpsertSymbolUnguarded(sy, s, ts) ==
    IF s \notin DOMAIN sy THEN sy @@ (s :> ts) ELSE [sy EXCEPT ![s] = ts]

\* INSERT INTO symbols ... ON CONFLICT DO UPDATE ... WHERE excluded.last_seen_ts > symbols.last_seen_ts
UpsertSymbol(sy, s, ts) ==
    IF s \notin DOMAIN sy THEN sy @@ (s :> ts)
    ELSE IF ts > sy[s] THEN [sy EXCEPT ![s] = ts]
    ELSE sy

\* variant: insertTrade without its try/catch, the storage error reaches the caller
insertTradeThrows(st, trade, now, fault) ==
    IF fault = "trades"
    THEN [trades |-> st.trades, symbols |-> st.symbols, threw |-> TRUE]
    ELSE IF fault = "symbols"
    THEN [trades |-> InsertOrIgnore(st.trades, trade), symbols |-> st.symbols, threw |-> TRUE]
    ELSE [trades  |-> InsertOrIgnore(st.trades, trade),
          symbols |-> UpsertSymbol(st.symbols, trade.symbol, Or2(trade.ts, now)),
          threw   |-> FALSE]

\* insertTrade(trade) on the store st = [trades, symbols]; fault names the
\* statement that raises a storage error ("none": neither).  The catch block
\* swallows the error, so the call never throws.
insertTrade(st, trade, now, fault) ==
    IF fault = "trades"
    THEN [trades |-> st.trades, symbols |-> st.symbols, threw |-> FALSE]
    ELSE IF fault = "symbols"
    THEN [trades |-> InsertOrIgnore(st.trades, trade), symbols |-> st.symbols, threw |-> FALSE]
    ELSE [trades  |-> InsertOrIgnore(st.trades, trade),
          symbols |-> UpsertSymbol(st.symbols, trade.symbol, Or2(trade.ts, now)),
          threw   |-> FALSE]

----------------------------------------------------------------------------
(* The backfill job engine: POST /api/backfill, createBackfillJob,         *)
(* updateJob and runBackfill.  One action is one turn of the event loop:   *)
(* the code between two suspension points that wait for the network or a   *)
(* timer (an await of updateJob only yields to the microtask queue).       *)

MaxWindows == 2

windowMs == 60 * 60 * 1000

UnknownExchange == "ftx"
JobExchanges == Exchanges \cup {UnknownExchange}

\* the start timestamps of the requests: one before the epoch by a window, so
\* that a cursor reaches 0
StartTsSet == {-windowMs, 1, 2}
EndTsSet == {1 + k * windowMs : k \in 0..(MaxWindows - 1)}

\* what a connector can return for one window
VenueBatches == {<<>>, <<RawA, RawB>>, <<RawC>>}

\* String(errWindow)
ErrMsg == "Error: request failed"

Min(a, b) == IF a <= b THEN a ELSE b

\* the number -Infinity, which Number(body.startTs) gives for "-Infinity" or
\* -1e999, and the addition of a finite number to a timestamp
NegInfinity == -2000000000
FAdd(x, d) == IF x = NegInfinity THEN NegInfinity ELSE x + d

\* the counters the model keeps of a runner's windows count up to MaxWindows + 1
Count(n) == IF n <= MaxWindows THEN n + 1 ELSE n

\* pRetry(fn, {retries: n}) makes the first attempt and up to n retries
Retries(e) == IF e = "binance" THEN 3 ELSE 2

\* connectors whose own try/catch turns a transport error into []
Swallows(e) == e \in {"bitget", "gate", "huobi"}

\* variant: the UPDATE has no WHERE clause and writes every row
updateJobEveryRow(tbl, jobId, props, now) ==
    IF jobId \notin DOMAIN tbl THEN tbl
    ELSE [k \in DOMAIN tbl |->
            [tbl[k] EXCEPT
               !.current_ts = IF "current_ts" \in DOMAIN props
                              THEN props.current_ts ELSE tbl[jobId].current_ts,
               !.status     = IF "status" \in DOMAIN props /\ props.status # ""
                              THEN props.status ELSE tbl[jobId].status,
               !.message    = IF "message" \in DOMAIN props /\ props.message # ""
                              THEN props.message ELSE tbl[jobId].message,
               !.updated_at = now]]

\* updateJob(jobId, props): props is a record holding the keys passed;
\* "" stands for a falsy status or message (NULL in the row)
updateJob(tbl, jobId, props, now) ==
    IF jobId \notin DOMAIN tbl THEN tbl
    ELSE LET row == tbl[jobId] IN
         [tbl EXCEPT ![jobId] =
            [row EXCEPT
               !.current_ts = IF "current_ts" \in DOMAIN props
                              THEN props.current_ts ELSE row.current_ts,
               !.status     = IF "status" \in DOMAIN props /\ props.status # ""
                              THEN props.status ELSE row.status,
               !.message    = IF "message" \in DOMAIN props /\ props.message # ""
                              THEN props.message ELSE row.message,
               !.updated_at = now]]

\* what the history keeps of a persisted row
Logged(row) ==
    [status |-> row.status, current_ts |-> row.current_ts, message |-> row.message]

\* one write to the job row, recorded in the row's history
Persist(db, jobId, props, now) ==
    LET nj == updateJob(db.jobs, jobId, props, now) IN
    [db EXCEPT !.jobs = nj,
               !.hist = [h \in DOMAIN db.hist |->
                           IF db.log /\ (h = jobId \/ nj[h] # db.jobs[h])
                           THEN Append(db.hist[h], Logged(nj[h])) ELSE db.hist[h]]]

\* the record of a runner that has inserted no batch yet
NoInsert == [window |-> 0, ids |-> <<>>, faultAt |-> 0]

\* lines 357-361: the window is done, the cursor moves past it
WindowDone(db, j, now) ==
    LET r  == db.run[j]
        d1 == [db EXCEPT !.run[j] = [r EXCEPT !.current = FAdd(r.wEnd, 1),
                                              !.pc = "sleeping",
                                              !.windowsDone = Count(@),
                                              !.prevWEnd = r.wEnd]]
    IN Persist(d1, j, [current_ts |-> FAdd(r.wEnd, 1), status |-> "running"], now)

\* variant: the window catch marks the job failed and the loop goes on
WindowFailedContinues(db, j, now) ==
    LET r  == db.run[j]
        d1 == Persist(db, j, [status |-> "failed", message |-> ErrMsg], now)
    IN [d1 EXCEPT !.run[j] = [r EXCEPT !.current = r.wEnd + 1, !.pc = "sleeping",
                                       !.failedWindow = r.windowsDone + 1]]

\* variant: the window catch also moves the cursor past the failed window
WindowFailedAdvances(db, j, now) ==
    LET r  == db.run[j]
        d1 == Persist(db, j, [status |-> "failed", message |-> ErrMsg,
                              current_ts |-> r.wEnd + 1], now)
    IN [d1 EXCEPT !.run[j] = [r EXCEPT !.pc = "finished",
                                       !.failedWindow = r.windowsDone + 1]]

\* lines 362-373: the window's fetch threw; the window catch and then the
\* outer catch each mark the job failed, and the rejection ends the runner
WindowFailed(db, j, now) ==
    LET r  == db.run[j]
        d1 == Persist(db, j, [status |-> "failed", message |-> ErrMsg], now)
        d2 == Persist(d1, j, [status |-> "failed", message |-> ErrMsg], now)
    IN [d2 EXCEPT !.run[j] = [r EXCEPT !.pc = "finished",
                                       !.failedWindow = r.windowsDone + 1]]

\* line 368: the loop is over
JobDone(db, j, now) ==
    LET r  == db.run[j]
        d1 == Persist(db, j, [status |-> "done", current_ts |-> r.end,
                              message |-> "completed"], now)
    IN [d1 EXCEPT !.run[j] = [r EXCEPT !.pc = "finished"]]

\* the windows [w0, w1] a runner has entered, in the order of the loop's turns
\* (the first MaxWindows + 1 of them)
Entered(ws, w0, w1) ==
    IF Len(ws) <= MaxWindows THEN Append(ws, [w0 |-> w0, w1 |-> w1]) ELSE ws

\* lines 221-225 and 352-355: the loop test, the window bounds, and the
\* start of the window's fetch (no fetch for an exchange without a branch)
LoopHead(db, j, now) ==
    LET r == db.run[j] IN
    IF r.current <= r.end
    THEN LET wEnd == Min(r.end, FAdd(r.current, windowMs - 1))
             ws   == Entered(r.windows, r.current, wEnd)
         IN
         IF db.jobs[j].exchange \in Exchanges
         THEN [db EXCEPT !.run[j] = [r EXCEPT !.pc = "fetching", !.wEnd = wEnd,
                                              !.attempt = 1,
                                              !.fetchedWindows = Count(@),
                                              !.windows = ws]]
         ELSE WindowDone([db EXCEPT !.run[j] = [r EXCEPT !.wEnd = wEnd,
                                                         !.windows = ws]], j, now)
    ELSE JobDone(db, j, now)

\* line 215: the point at which a call of runBackfill takes the job up from
\* its row, Number(jobRow.current_ts) || Number(jobRow.start_ts)
ResumePoint(row) == Or2(row.current_ts, row.start_ts)

\* lines 212-217: runBackfill up to its loop
\* starts counts the calls of runBackfill for the job
StartRun(db, j, now) ==
    LET row == db.jobs[j]
        r0  == [pc |-> "start", current |-> ResumePoint(row),
                end |-> row.end_ts, wEnd |-> 0, attempt |-> 0,
                windowsDone |-> 0, fetchedWindows |-> 0, insertedWindows |-> 0,
                failedWindow |-> 0, prevWEnd |-> 0, lostWindows |-> 0,
                lastInsert |-> NoInsert, windows |-> <<>>,
                starts |-> IF j \in DOMAIN db.run THEN db.run[j].starts + 1 ELSE 1]
        d1  == [db EXCEPT !.run = IF j \in DOMAIN @ THEN [@ EXCEPT ![j] = r0]
                                  ELSE @ @@ (j :> r0)]
    IN LoopHead(Persist(d1, j, [status |-> "running"], now), j, now)

\* variant: createBackfillJob starts the runner of the job twice
createBackfillJobStartsTwice(db, jobId, symbol, exchange, startTs, endTs, now) ==
    LET row == [id |-> jobId, symbol |-> symbol, exchange |-> exchange,
                start_ts |-> startTs, end_ts |-> endTs, current_ts |-> startTs,
                status |-> "pending", message |-> "", updated_at |-> now]
        d1  == [db EXCEPT !.jobs = @ @@ (jobId :> row),
                          !.hist = @ @@ (jobId :> <<Logged(row)>>)]
    IN StartRun(StartRun(d1, jobId, now), jobId, now)

\* lines 188-198
createBackfillJob(db, jobId, symbol, exchange, startTs, endTs, now) ==
    LET row == [id |-> jobId, symbol |-> symbol, exchange |-> exchange,
                start_ts |-> startTs, end_ts |-> endTs, current_ts |-> startTs,
                status |-> "pending", message |-> "", updated_at |-> now]
        d1  == [db EXCEPT !.jobs = @ @@ (jobId :> row),
                          !.hist = @ @@ (jobId :> <<Logged(row)>>)]
    IN StartRun(d1, jobId, now)

\* lines 496-502: one job per exchange of the request, ids fresh
RECURSIVE PostJobs(_, _, _, _, _, _, _)
PostJobs(db, symbol, exch, startTs, endTs, now, i) ==
    IF i > Len(exch) THEN db
    ELSE PostJobs(createBackfillJob(db, Cardinality(DOMAIN db.jobs) + 1, symbol,
                                    exch[i], startTs, endTs, now),
                  symbol, exch, startTs, endTs, now, i + 1)

\* the inserts of one window's batch (the for loops of lines 228-351)
\* st = [trades, symbols, draws, ids, calls, threw]: ids are the identities of
\* the trades built so far and calls the insertTrade calls made; a call of
\* insertTrade that throws ends the loop
RECURSIVE InsertBatch(_, _, _, _, _, _, _, _)
InsertBatch(st, e, s, batch, now, faultAt, faultKind, i) ==
    IF i > Len(batch) \/ st.threw THEN st
    ELSE LET t     == ConnectorShape(e, batch[i], now)
             trade == Normalize(e, s, t, st.draws + 1, now)
             res   == insertTrade(st, trade, now,
                                  IF i = faultAt THEN faultKind ELSE "none")
         IN InsertBatch([trades |-> res.trades, symbols |-> res.symbols,
                         draws |-> IF NeedsRnd(e, t) THEN st.draws + 1 ELSE st.draws,
                         ids |-> Append(st.ids, trade.id),
                         calls |-> Append(st.calls,
                                          [raw |-> batch[i], trade |-> trade, now |-> now,
                                           fault |-> IF i = faultAt THEN faultKind
                                                     ELSE "none"]),
                         threw |-> res.threw],
                        e, s, batch, now, faultAt, faultKind, i + 1)

\* log: whether the specification keeps the history of the rows
DB == [jobs |-> backfill_jobs, hist |-> jobHist, run |-> run, log |-> lim.history]

SetDB(db) ==
    /\ backfill_jobs' = db.jobs
    /\ jobHist' = db.hist
    /\ run' = db.run

SeqsUpTo(S, n) == UNION {[1..k -> S] : k \in 1..n}

Init ==
    /\ trades = {}
    /\ symbols = <<>>
    /\ writers = [w \in Writers |-> <<"BTCUSDT", "binance">>]
    /\ sent = <<>>
    /\ insertThrew = FALSE
    /\ draws = 0
    /\ backfill_jobs = <<>>
    /\ jobHist = <<>>
    /\ run = <<>>
    /\ MbIdle
    /\ ApiIdle
    /\ lim = [maxJobs |-> 1, symbols |-> Symbols, exchanges |-> JobExchanges,
              batches |-> VenueBatches, faults |-> Faults,
              starts |-> StartTsSet, history |-> TRUE]

\* POST /api/backfill { symbol, exchanges, startTs, endTs }
PostBackfill ==
    \E symbol \in lim.symbols, startTs \in lim.starts, endTs \in EndTsSet, now \in NowSet :
    \E exch \in SeqsUpTo(lim.exchanges, lim.maxJobs - Cardinality(DOMAIN backfill_jobs)) :
       /\ SetDB(PostJobs(DB, symbol, exch, startTs, endTs, now, 1))
       /\ UNCHANGED <<tableVars, driverVars, lim, mbVars, apiVars>>

\* the window's fetch resolves with a batch
FetchOk(j) ==
    /\ run[j].pc = "fetching"
    /\ \E batch \in lim.batches, now \in NowSet :
       \E faultAt \in 0..Len(batch), faultKind \in lim.faults :
         LET row == backfill_jobs[j]
             st  == InsertBatch([trades |-> trades, symbols |-> symbols, draws |-> draws,
                                 ids |-> <<>>, calls |-> <<>>, threw |-> FALSE],
                                row.exchange, row.symbol, batch, now,
                                faultAt, faultKind, 1)
             d1  == [DB EXCEPT !.run[j].insertedWindows = Count(@),
                               !.run[j].lastInsert =
                                   [window |-> run[j].fetchedWindows, ids |-> st.ids,
                                    faultAt |-> faultAt]]
         IN /\ (faultAt = 0) = (faultKind = "none")
            /\ trades' = st.trades
            /\ symbols' = st.symbols
            /\ draws' = st.draws
            /\ SetDB(IF st.threw THEN WindowFailed(d1, j, now) ELSE WindowDone(d1, j, now))
            /\ UNCHANGED <<driverVars, lim, mbVars, apiVars>>

\* an attempt of the window's fetch fails in transport
FetchError(j) ==
    /\ run[j].pc = "fetching"
    /\ \E now \in NowSet :
         LET e == backfill_jobs[j].exchange IN
         /\ SetDB(IF Swallows(e)
                  THEN WindowDone([DB EXCEPT !.run[j].insertedWindows = Count(@),
                                             !.run[j].lostWindows = Count(@)], j, now)
                  ELSE IF run[j].attempt <= Retries(e)
                  THEN [DB EXCEPT !.run[j].attempt = @ + 1]
                  ELSE WindowFailed(DB, j, now))
         /\ UNCHANGED <<tableVars, driverVars, lim, mbVars, apiVars>>

\* sleep(250) is over: next turn of the while loop
SleepDone(j) ==
    /\ run[j].pc = "sleeping"
    /\ \E now \in NowSet : SetDB(LoopHead(DB, j, now))
    /\ UNCHANGED <<tableVars, driverVars, lim, mbVars, apiVars>>

Next ==
    \/ PostBackfill
    \/ \E j \in DOMAIN run : FetchOk(j)
    \/ \E j \in DOMAIN run : FetchError(j)
    \/ \E j \in DOMAIN run : SleepDone(j)

Spec == Init /\ [][Next]_vars

\* the job engine under several requests and concurrent jobs, the venues
\* returning empty batches
InitJobs ==
    /\ trades = {}
    /\ symbols = <<>>
    /\ writers = [w \in Writers |-> <<"BTCUSDT", "binance">>]
    /\ sent = <<>>
    /\ insertThrew = FALSE
    /\ draws = 0
    /\ backfill_jobs = <<>>
    /\ jobHist = <<>>
    /\ run = <<>>
    /\ MbIdle
    /\ ApiIdle
    /\ lim = [maxJobs |-> 2, symbols |-> {"BTCUSDT"},
              exchanges |-> {"binance", UnknownExchange},
              batches |-> {<<>>}, faults |-> {"none"},
              starts |-> StartTsSet, history |-> TRUE]

SpecJobs == InitJobs /\ [][Next]_vars

\* the job engine with every fetch settling and every timer firing, for the
\* start timestamps the endpoint accepts, -Infinity included; the rows'
\* history is not kept
InitLive ==
    /\ trades = {}
    /\ symbols = <<>>
    /\ writers = [w \in Writers |-> <<"BTCUSDT", "binance">>]
    /\ sent = <<>>
    /\ insertThrew = FALSE
    /\ draws = 0
    /\ backfill_jobs = <<>>
    /\ jobHist = <<>>
    /\ run = <<>>
    /\ MbIdle
    /\ ApiIdle
    /\ lim = [maxJobs |-> 1, symbols |-> {"BTCUSDT"}, exchanges |-> JobExchanges,
              batches |-> {<<>>, <<RawA, RawB>>}, faults |-> {"none"},
              starts |-> StartTsSet \cup {NegInfinity}, history |-> FALSE]

\* the pending fetch of job j settles; the pending timer of job j fires
FetchSettles(j) == j \in DOMAIN run /\ (FetchOk(j) \/ FetchError(j))
TimerFires(j) == j \in DOMAIN run /\ SleepDone(j)

SpecLive ==
    /\ InitLive
    /\ [][Next]_vars
    /\ \A j \in 1..1 : WF_vars(FetchSettles(j)) /\ WF_vars(TimerFires(j))

----------------------------------------------------------------------------
(* Store specification: two backfill jobs (the writers) whose fetches       *)
(* return raw records; the turn that receives a batch normalises it, calls *)
(* insertTrade for each record and ends with updateJob and the sleep.  The *)
(* turns of the two jobs interleave in any order.                          *)

NoFaults(s) == Cardinality({i \in 1..Len(s) : s[i].fault # "none"})

\* the job of a writer: the jobs are created in the order w1, w2
JobOf(w) == IF w = "w1" THEN 1 ELSE 2

StoreStartTs == 1
StoreEndTs == MaxCalls * windowMs

\* the job rows and runners after POST /api/backfill for each writer's feed
StoreJobs(ws) ==
    LET d0 == [jobs |-> <<>>, hist |-> <<>>, run |-> <<>>, log |-> FALSE]
        d1 == createBackfillJob(d0, JobOf("w1"), ws["w1"][1], ws["w1"][2],
                                StoreStartTs, StoreEndTs, Now0)
    IN createBackfillJob(d1, JobOf("w2"), ws["w2"][1], ws["w2"][2],
                         StoreStartTs, StoreEndTs, Now0)

\* the feeds of the two jobs: w1 backfills BTCUSDT on any exchange, w2 either
\* symbol on w1's exchange or on binance
StoreFeeds ==
    {ws \in [Writers -> Symbols \X Exchanges] :
        ws["w1"][1] = "BTCUSDT" /\ ws["w2"][2] \in {ws["w1"][2], "binance"}}

\* the calls of a batch, tagged with the writer that made them
CallsOf(w, cs) == [k \in 1..Len(cs) |-> [writer |-> w] @@ cs[k]]

\* the feeds of two jobs that backfill the same symbol on the same exchange
SameFeeds == {ws \in StoreFeeds : ws["w1"] = ws["w2"]}

\* the two jobs created on the empty tables, their first fetch pending; nows:
\* the values Date.now() takes in the turns that receive a batch
StoreInit(feeds, nows) ==
    /\ trades = {}
    /\ symbols = <<>>
    /\ writers \in feeds
    /\ sent = <<>>
    /\ insertThrew = FALSE
    /\ draws = 0
    /\ backfill_jobs = StoreJobs(writers).jobs
    /\ jobHist = StoreJobs(writers).hist
    /\ run = StoreJobs(writers).run
    /\ lim = [maxJobs |-> 2, symbols |-> Symbols, exchanges |-> Exchanges,
              batches |-> SeqsUpTo(RawRecords, MaxCalls), faults |-> Faults,
              starts |-> {StoreStartTs}, history |-> FALSE, nows |-> nows]
    /\ MbIdle
    /\ ApiIdle

InitStore == StoreInit(StoreFeeds, NowSet)

\* two jobs of the same feed, every batch received at the same clock value
InitSameFeed == StoreInit(SameFeeds, {Now0})

\* the fetch of the window of w's job resolves with a batch: the for loop of
\* the job's exchange branch and lines 357-361
NormalizeAndInsert(w) ==
    LET j == JobOf(w) IN
    /\ run[j].pc = "fetching"
    /\ \E batch \in lim.batches, now \in lim.nows :
       \E faultAt \in 0..Len(batch), faultKind \in lim.faults :
         LET row == backfill_jobs[j]
             st  == InsertBatch([trades |-> trades, symbols |-> symbols, draws |-> draws,
                                 ids |-> <<>>, calls |-> <<>>, threw |-> FALSE],
                                row.exchange, row.symbol, batch, now,
                                faultAt, faultKind, 1)
             d1  == [DB EXCEPT !.run[j].insertedWindows = Count(@),
                               !.run[j].lastInsert =
                                   [window |-> run[j].fetchedWindows, ids |-> st.ids,
                                    faultAt |-> faultAt]]
         IN /\ Len(sent) + Len(batch) <= MaxCalls
            /\ (faultAt = 0) = (faultKind = "none")
            /\ faultKind # "none" => NoFaults(sent) < MaxFaults
            /\ trades' = st.trades
            /\ symbols' = st.symbols
            /\ draws' = st.draws
            /\ insertThrew' = st.threw
            /\ sent' = sent \o CallsOf(w, st.calls)
            /\ SetDB(IF st.threw THEN WindowFailed(d1, j, now) ELSE WindowDone(d1, j, now))
            /\ UNCHANGED <<writers, lim, mbVars, apiVars>>

NextStore ==
    \/ \E w \in Writers : NormalizeAndInsert(w)
    \/ \E j \in DOMAIN run : SleepDone(j)

SpecStore == InitStore /\ [][NextStore]_vars

SpecSameFeed == InitSameFeed /\ [][NextStore]_vars

----------------------------------------------------------------------------
(* Properties of the Trade Store and of the normalisation (SpecStore) *)

SameFeed(i, j) == writers[sent[i].writer] = writers[sent[j].writer]

\* the store after the calls of cs, made in the order of cs
RECURSIVE Replay(_, _, _)
Replay(st, cs, i) ==
    IF i > Len(cs) THEN st
    ELSE LET res == insertTrade(st, cs[i].trade, cs[i].now, cs[i].fault)
         IN Replay([trades |-> res.trades, symbols |-> res.symbols], cs, i + 1)

\* the tables before and after the k-th call made
StoreBefore(k) == Replay([trades |-> {}, symbols |-> <<>>], SubSeq(sent, 1, k - 1), 1)
StoreAfter(k) ==
    IF k = Len(sent) THEN [trades |-> trades, symbols |-> symbols]
    ELSE StoreBefore(k + 1)

\* C1: insertTrade of a trade whose id is already in the trades table leaves
\* the table as it was (the stored row keeps its fields, no row is added) and
\* no error reaches the caller.
C1_InsertExistingIsNoOp ==
    \A k \in 1..Len(sent) :
       sent[k].trade.id \in Ids(StoreBefore(k).trades)
          => (StoreAfter(k).trades = StoreBefore(k).trades /\ insertThrew = FALSE)

\* C1 witness: a second call with a stored id and different fields was made
C1_Witness ==
    /\ Len(sent) = 2
    /\ sent[1].trade.id = sent[2].trade.id
    /\ sent[1].trade # sent[2].trade
    /\ sent[1].fault = "none" /\ sent[2].fault = "none"
    /\ trades = {sent[1].trade}
    /\ insertThrew = FALSE

\* C2: the same raw record normalised and inserted twice on the same feed
\* (same symbol, same exchange branch) is stored as exactly one trade, also
\* when the record lacks the venue-native id field.
C2_SameRecordStoredOnce ==
    \A i, j \in 1..Len(sent) :
       (i < j /\ SameFeed(i, j) /\ sent[i].raw = sent[j].raw
          /\ sent[i].fault = "none" /\ sent[j].fault = "none")
       => Cardinality({x \in trades : x.id \in {sent[i].trade.id, sent[j].trade.id}}) = 1

\* C3: symbols.last_seen_ts of a symbol never decreases (and the symbol's row
\* never disappears), whatever the call.
C3_LastSeenNeverDecreases ==
    [][\A s \in DOMAIN symbols :
          s \in DOMAIN symbols' /\ symbols'[s] >= symbols[s]]_vars

\* C3 witness: an older trade was inserted after a newer one of the same symbol
C3_Witness ==
    /\ Len(sent) = 2
    /\ sent[1].trade.symbol = sent[2].trade.symbol
    /\ sent[2].trade.ts < sent[1].trade.ts
    /\ sent[1].fault = "none" /\ sent[2].fault = "none"
    /\ symbols[sent[1].trade.symbol] = sent[1].trade.ts

\* C8: two venue trades of the same feed that differ in price, quantity or
\* side never get the same identity.
C8_DistinctTradesDistinctIds ==
    \A i, j \in 1..Len(sent) :
       (SameFeed(i, j) /\ sent[i].fault = "none" /\ sent[j].fault = "none"
          /\ (sent[i].raw.p # sent[j].raw.p \/ sent[i].raw.q # sent[j].raw.q
                \/ sent[i].raw.side # sent[j].raw.side))
       => sent[i].trade.id # sent[j].trade.id

\* the orders of the calls made that keep each writer's own order
Interleavings ==
    {pi \in [1..Len(sent) -> 1..Len(sent)] :
        /\ \A a, b \in 1..Len(sent) : a # b => pi[a] # pi[b]
        /\ \A a, b \in 1..Len(sent) :
              (a < b /\ sent[pi[a]].writer = sent[pi[b]].writer) => pi[a] < pi[b]}

\* C9: the contents of trades and symbols do not depend on the interleaving
\* of the two writers' insertTrade calls (no storage error occurring).
C9_InsertsCommute ==
    \A pi \in Interleavings :
       (\A k \in 1..Len(sent) : sent[k].fault = "none") =>
       Replay([trades |-> {}, symbols |-> <<>>],
              [k \in 1..Len(sent) |-> sent[pi[k]]], 1)
         = [trades |-> trades, symbols |-> symbols]

\* C18: a raw record that lacks a usable price or quantity is skipped: it is
\* never stored as a trade.
C18_MalformedRecordSkipped ==
    \A i \in 1..Len(sent) :
       (sent[i].raw.p = 0 \/ sent[i].raw.q = 0) => sent[i].trade.id \notin Ids(trades)

\* C19: every trade passed to insertTrade has side buy or sell and a defined
\* numeric quantity; a record with no side gives buy, a record with no
\* quantity gives 0, in every exchange branch.
C19_DefensiveDefaults ==
    \A i \in 1..Len(sent) :
       /\ sent[i].trade.side \in {"buy", "sell"}
       /\ sent[i].trade.qty # NaN
       /\ sent[i].raw.side = "" => sent[i].trade.side = "buy"
       /\ sent[i].raw.q = 0 => sent[i].trade.qty = 0

----------------------------------------------------------------------------
(* Properties of the backfill job engine (Spec) *)

StatusRank(st) ==
    IF st = "pending" THEN 0 ELSE IF st = "running" THEN 1 ELSE 2

\* C4: the persisted status goes pending -> running -> {done, failed}: the row
\* is created pending, it is running before any fetch starts, and once it
\* holds done or failed no later write changes the status.
C4_StatusStateMachine ==
    \A j \in DOMAIN jobHist :
       LET h == jobHist[j] IN
       /\ h[1].status = "pending"
       /\ \A i \in 1..Len(h) : h[i].status \in {"pending", "running", "done", "failed"}
       /\ \A i \in 1..(Len(h) - 1) :
             /\ StatusRank(h[i].status) <= StatusRank(h[i + 1].status)
             /\ h[i].status = "pending" => h[i + 1].status = "running"
             /\ h[i].status \in {"done", "failed"} => h[i + 1].status = h[i].status
       /\ (j \in DOMAIN run /\ run[j].fetchedWindows > 0)
             => (Len(h) >= 2 /\ h[2].status = "running")

\* C4 witness: a job whose row was written again after it held failed, and a
\* job that ended done after a window
C4_Witness ==
    \E j \in DOMAIN jobHist :
       LET h == jobHist[j] IN
       /\ Len(h) >= 5
       /\ h[Len(h) - 1].status = "failed" /\ h[Len(h)].status = "failed"
       /\ h[Len(h) - 2].status = "running"
       /\ run[j].windowsDone >= 1

\* C5: the persisted cursor current_ts of a job never decreases from one
\* write of its row to the next, the write of status done included (stated
\* for the jobs whose range is not empty).
C5_CursorNeverDecreases ==
    \A j \in DOMAIN jobHist :
       backfill_jobs[j].start_ts <= backfill_jobs[j].end_ts =>
       \A i \in 1..(Len(jobHist[j]) - 1) :
          jobHist[j][i].current_ts <= jobHist[j][i + 1].current_ts

\* C6: when the fetch of window k > 1 fails for good, the job is failed with
\* the error as message, its cursor is the end of window k-1 plus 1, and no
\* later window is fetched or inserted.
C6_WindowFailureStopsJob ==
    \A j \in DOMAIN run :
       run[j].failedWindow > 1 =>
          /\ backfill_jobs[j].status = "failed"
          /\ backfill_jobs[j].message = ErrMsg
          /\ backfill_jobs[j].current_ts = run[j].prevWEnd + 1
          /\ run[j].fetchedWindows = run[j].failedWindow
          /\ run[j].insertedWindows = run[j].failedWindow - 1
          /\ run[j].pc = "finished"

\* C6 witness: the second window of a job failed after the first was stored
C6_Witness ==
    \E j \in DOMAIN run :
       /\ run[j].failedWindow = 2
       /\ run[j].pc = "finished"
       /\ backfill_jobs[j].status = "failed"
       /\ backfill_jobs[j].current_ts = windowMs + 1
       /\ trades # {}

\* C14: every persisted state of a job row has its cursor between the job's
\* start and its end plus one window: start_ts <= current_ts <= end_ts + windowMs,
\* for every startTs and endTs the endpoint accepts.
C14_CursorWithinRange ==
    \A j \in DOMAIN jobHist :
       \A i \in 1..Len(jobHist[j]) :
          /\ backfill_jobs[j].start_ts <= jobHist[j][i].current_ts
          /\ jobHist[j][i].current_ts <= backfill_jobs[j].end_ts + windowMs

\* C15: the fetch of one window is attempted at most 3 times in all, for
\* every exchange.
C15_AtMostThreeAttempts ==
    \A j \in DOMAIN run : run[j].attempt <= 3

\* C16: for every supported exchange, a job one of whose windows met a
\* transport failure at every attempt of its fetch ends failed, never done.
C16_TransportFailureFailsJob ==
    \A j \in DOMAIN run :
       (run[j].pc = "finished" /\ (run[j].failedWindow > 0 \/ run[j].lostWindows > 0))
          => backfill_jobs[j].status = "failed"

\* C17: a storage error on one insert of a window's batch does not reach
\* runBackfill: the other records of the batch are stored, the cursor moves
\* past the window and the job stays running.
C17_StorageErrorSwallowed ==
    [][\A j \in DOMAIN run :
          (/\ run[j].pc = "fetching"
           /\ run'[j].lastInsert.window = run[j].fetchedWindows
           /\ run'[j].lastInsert # run[j].lastInsert
           /\ run'[j].lastInsert.faultAt > 0)
          => LET li == run'[j].lastInsert IN
             /\ Len(li.ids) > 0
             /\ \A k \in DOMAIN li.ids : k # li.faultAt => li.ids[k] \in Ids(trades')
             /\ run'[j].pc = "sleeping"
             /\ backfill_jobs'[j].current_ts = run[j].wEnd + 1
             /\ backfill_jobs'[j].status = "running"]_vars

\* C17 witness: the insert of the first of two records failed, the second is
\* stored, the window is done and the job runs on
C17_Witness ==
    \E j \in DOMAIN run :
       /\ run[j].lastInsert.faultAt = 1
       /\ Len(run[j].lastInsert.ids) = 2
       /\ run[j].lastInsert.ids[1] \notin Ids(trades)
       /\ run[j].lastInsert.ids[2] \in Ids(trades)
       /\ run[j].pc = "sleeping"
       /\ backfill_jobs[j].current_ts = run[j].prevWEnd + 1
       /\ backfill_jobs[j].status = "running"

\* C20: runBackfill is started exactly once for every job row, whatever the
\* sequence of POST /api/backfill requests: every row has one runner.
C20_OneRunnerPerJob ==
    /\ DOMAIN run = DOMAIN backfill_jobs
    /\ \A j \in DOMAIN backfill_jobs : backfill_jobs[j].id = j /\ run[j].starts = 1

\* C20 witness: two jobs of two requests, both fetching at the same time
C20_Witness ==
    /\ Cardinality(DOMAIN backfill_jobs) = 2
    /\ backfill_jobs[1].start_ts # backfill_jobs[2].start_ts
    /\ run[1].pc = "fetching" /\ run[2].pc = "fetching"

\* C13: every job that is created eventually holds a terminal status, done
\* or failed, every fetch attempt returning or throwing in the end.
C13_EveryJobTerminates ==
    \A j \in 1..1 :
       (j \in DOMAIN backfill_jobs)
          ~> (j \in DOMAIN backfill_jobs /\ backfill_jobs[j].status \in {"done", "failed"})

\* C21: the windows of a job are entered in strictly increasing order and
\* partition the range: the first starts at the job's cursor (its start_ts),
\* every window [w0, w1] has w1 = min(end_ts, w0 + windowMs - 1), the next one
\* starts at w1 + 1 and lies after it, and a job that ends done has its first
\* window at start_ts and its last window ending at end_ts.
C21_WindowsPartitionRange ==
    \A j \in DOMAIN run :
       LET w   == run[j].windows
           row == backfill_jobs[j]
       IN /\ Len(w) >= 1 => w[1].w0 = row.start_ts
          /\ \A i \in 1..Len(w) :
                /\ w[i].w1 = Min(row.end_ts, FAdd(w[i].w0, windowMs - 1))
                /\ w[i].w0 <= w[i].w1
          /\ \A i \in 1..(Len(w) - 1) :
                /\ w[i + 1].w0 = FAdd(w[i].w1, 1)
                /\ w[i].w0 < w[i + 1].w0
                /\ w[i].w1 < w[i + 1].w0
          /\ (row.status = "done" /\ row.start_ts <= row.end_ts)
                => (Len(w) >= 1 /\ w[Len(w)].w1 = row.end_ts)

\* C22: the job row is the checkpoint of progress: while the fetch of a window
\* [w0, w1] is pending the row holds current_ts = w0 and status running, and
\* after a window is done the row holds current_ts = w1 + 1 and status running
\* before the next fetch begins; so a runner restarted from the row would
\* resume (line 215) at the first window not yet completed: at w0 while the
\* window's fetch is pending, at w1 + 1 once the window is done.
C22_RowIsCheckpoint ==
    \A j \in DOMAIN run :
       LET r   == run[j]
           row == backfill_jobs[j]
           w   == r.windows
           n   == Len(r.windows)
       IN /\ r.pc = "fetching" =>
                /\ n >= 1
                /\ row.current_ts = w[n].w0
                /\ row.status = "running"
                /\ n >= 2 => row.current_ts = FAdd(w[n - 1].w1, 1)
                /\ ResumePoint(row) = w[n].w0
          /\ r.pc = "sleeping" =>
                /\ n >= 1
                /\ row.current_ts = FAdd(w[n].w1, 1)
                /\ row.status = "running"
                /\ ResumePoint(row) = FAdd(w[n].w1, 1)

\* C24: a job created for an exchange that has no connector ends failed: its
\* row never holds done, its runner ends with the row failed, and it inserts
\* no trades (stated for the jobs whose range is not empty).
C24_UnknownExchangeFails ==
    \A j \in DOMAIN run :
       (/\ backfill_jobs[j].exchange \notin Exchanges
        /\ backfill_jobs[j].start_ts <= backfill_jobs[j].end_ts) =>
          /\ \A i \in DOMAIN jobHist[j] : jobHist[j][i].status # "done"
          /\ run[j].pc = "finished" => backfill_jobs[j].status = "failed"
          /\ run[j].insertedWindows = 0
          /\ trades = {}

\* C26: a step that updates job rows leaves id, symbol, exchange, start_ts and
\* end_ts of every row as they were (end_ts being the end its runner read),
\* and changes the row of a job only in a step of that job's own runner, so
\* the rows of the other jobs stay unchanged, whatever the interleaving.
C26_UpdateJobFrame ==
    [][\A j \in DOMAIN backfill_jobs :
          /\ backfill_jobs'[j].id = backfill_jobs[j].id
          /\ backfill_jobs'[j].symbol = backfill_jobs[j].symbol
          /\ backfill_jobs'[j].exchange = backfill_jobs[j].exchange
          /\ backfill_jobs'[j].start_ts = backfill_jobs[j].start_ts
          /\ backfill_jobs'[j].end_ts = backfill_jobs[j].end_ts
          /\ run'[j].end = backfill_jobs'[j].end_ts
          /\ backfill_jobs'[j] # backfill_jobs[j] =>
                /\ run'[j] # run[j]
                /\ \A k \in DOMAIN backfill_jobs \ {j} :
                      backfill_jobs'[k] = backfill_jobs[k]]_vars

\* C26 witness: two jobs of different ranges, the first done and the second
\* running with its cursor past its first window
C26_Witness ==
    /\ Cardinality(DOMAIN backfill_jobs) = 2
    /\ backfill_jobs[1].status = "done"
    /\ backfill_jobs[2].status = "running"
    /\ backfill_jobs[2].current_ts = windowMs + 1
    /\ backfill_jobs[1].end_ts # backfill_jobs[2].end_ts
    /\ Len(jobHist[1]) >= 3 /\ Len(jobHist[2]) >= 3

----------------------------------------------------------------------------
(* The minute-bin server (src/server/index.js): upsertBin, ingestTrades,   *)
(* runBackfillJob and POST /api/backfill.  Its fetchers return trades      *)
(* already normalised to [price, qty, side, ts].                           *)

PRICE_BUCKET_SIZE == 1

mbWindowMs == 60 * 60 * 1000

\* FETCHERS
MbFetchers == {"binance", "okx", "bybit"}

\* the fetchers that ignore the window and return the venue's latest trades
MbSnapshotOnly == {"okx", "bybit"}
MbExchanges == MbFetchers \cup {"kucoin"}

\* years * 365 * 24 * 3600 * 1000 of the request
MbSpanSet == {k * mbWindowMs : k \in 1..MaxWindows}

MbBucketSizes == {PRICE_BUCKET_SIZE, 10}

MbT1 == [price |-> 100, qty |-> 1, side |-> "buy", ts |-> 60000]
MbT2 == [price |-> 104, qty |-> 2, side |-> "sell", ts |-> 60001]
MbT3 == [price |-> 105, qty |-> 1, side |-> "buy", ts |-> 120000]
MbBatches == {<<>>, <<MbT1, MbT2>>, <<MbT3>>}

Max(a, b) == IF a >= b THEN a ELSE b

toMinuteTs(ts) == (ts \div 60000) * 60000

\* Math.round(price / bucketSize) * bucketSize; Math.round(x) is floor(x + 1/2)
bucketPrice(price, bucketSize) ==
    ((2 * price + bucketSize) \div (2 * bucketSize)) * bucketSize

\* INSERT INTO minute_bins ... ON CONFLICT(id) DO UPDATE SET buy_vol = buy_vol + @buy_vol ...
upsertBin(bins, obj) ==
    IF obj.id \in DOMAIN bins
    THEN [bins EXCEPT ![obj.id] =
            [@ EXCEPT !.buy_vol = @ + obj.buy_vol,
                      !.sell_vol = @ + obj.sell_vol,
                      !.last_ts = Max(@, obj.last_ts)]]
    ELSE bins @@ (obj.id :> obj)

\* the row ingestTrades builds for one trade
BinRow(t, symbol, exchange, bucketSize, now) ==
    LET minute_ts == toMinuteTs(Or2(t.ts, now))
        bucket    == bucketPrice(t.price, bucketSize)
    IN [id |-> <<symbol, exchange, minute_ts, bucket>>,
        symbol |-> symbol, exchange |-> exchange,
        minute_ts |-> minute_ts, bucket |-> bucket,
        buy_vol |-> IF t.side = "buy" THEN t.qty ELSE 0,
        sell_vol |-> IF t.side = "sell" THEN t.qty ELSE 0,
        last_ts |-> Or2(t.ts, now)]

RECURSIVE IngestRows(_, _, _, _, _, _, _)
IngestRows(bins, rows, symbol, exchange, bucketSize, now, i) ==
    IF i > Len(rows) THEN bins
    ELSE IngestRows(upsertBin(bins, BinRow(rows[i], symbol, exchange, bucketSize, now)),
                    rows, symbol, exchange, bucketSize, now, i + 1)

\* variant: the upserts run outside a transaction; the rows before the one
\* that throws stay applied
ingestTradesNoRollback(bins, rows, symbol, exchange, bucketSize, now, faultAt) ==
    IF faultAt \in 1..Len(rows)
    THEN [bins |-> IngestRows(bins, SubSeq(rows, 1, faultAt - 1), symbol, exchange,
                              bucketSize, now, 1),
          threw |-> TRUE]
    ELSE [bins |-> IngestRows(bins, rows, symbol, exchange, bucketSize, now, 1),
          threw |-> FALSE]

\* ingestTrades: one transaction; when the upsert of row faultAt throws, the
\* transaction is rolled back and the error goes to the caller
ingestTrades(bins, rows, symbol, exchange, bucketSize, now, faultAt) ==
    IF faultAt \in 1..Len(rows)
    THEN [bins |-> bins, threw |-> TRUE]
    ELSE [bins |-> IngestRows(bins, rows, symbol, exchange, bucketSize, now, 1),
          threw |-> FALSE]

Msg(kind, at) == [kind |-> kind, at |-> at]

\* updateJob.run({ id, status, updated_at, message })
MbUpdateJob(db, j, status, message, now) ==
    IF j \notin DOMAIN db.jobs THEN db
    ELSE [db EXCEPT !.jobs[j] = [@ EXCEPT !.status = status, !.message = message,
                                          !.updated_at = now]]

\* lines 171-178 and 196: the loop test, the fetcher lookup, the start of
\* the window's fetch
MbLoopTest(db, j, nw) ==
    LET r == db.run[j] IN
    IF r.s < r.now
    THEN IF db.jobs[j].exchange \in MbFetchers
         THEN [db EXCEPT !.run[j] = [r EXCEPT !.pc = "fetching", !.attempt = 1]]
         ELSE [MbUpdateJob(db, j, "failed", Msg("no fetcher", 0), nw)
                 EXCEPT !.run[j] = [r EXCEPT !.pc = "finished"]]
    ELSE [MbUpdateJob(db, j, "done", Msg("backfill complete", 0), nw)
            EXCEPT !.run[j] = [r EXCEPT !.pc = "finished"]]

\* lines 187-191: the window's fetch threw after its retries; log and continue
MbWindowError(db, j, nw) ==
    LET r == db.run[j] IN
    [MbUpdateJob(db, j, "running", Msg("error window", r.s), nw)
       EXCEPT !.run[j] = [r EXCEPT !.pc = "sleeping", !.failedWindows = @ + 1]]

\* lines 162-170: runBackfillJob up to its loop
runBackfillJob(db, j, span, bucketSize, nw) ==
    LET d1 == MbUpdateJob(db, j, "running", Msg("starting", 0), nw)
        d2 == [d1 EXCEPT !.run = @ @@ (j :>
                 [pc |-> "start", now |-> nw, s |-> nw - span, attempt |-> 0,
                  bucketSize |-> bucketSize, failedWindows |-> 0, okWindows |-> 0,
                  rolledBack |-> 0])]
    IN MbLoopTest(d2, j, nw)

\* lines 222-229: one job per exchange of the request
RECURSIVE MbPostJobs(_, _, _, _, _, _, _)
MbPostJobs(db, symbol, exch, span, bucketSize, nw, i) ==
    IF i > Len(exch) THEN db
    ELSE LET jid == Cardinality(DOMAIN db.jobs) + 1
             row == [id |-> jid, symbol |-> symbol, exchange |-> exch[i],
                     status |-> "queued", created_at |-> nw, updated_at |-> nw,
                     message |-> Msg("queued", 0)]
             d1  == [db EXCEPT !.jobs = @ @@ (jid :> row)]
         IN MbPostJobs(runBackfillJob(d1, jid, span, bucketSize, nw),
                       symbol, exch, span, bucketSize, nw, i + 1)

MbDB == [jobs |-> jobs, run |-> mbRun]

MbSetDB(db) ==
    /\ jobs' = db.jobs
    /\ mbRun' = db.run

nonMbVars == <<tableVars, driverVars, jobVars, lim, apiVars>>

InitMB ==
    /\ trades = {}
    /\ symbols = <<>>
    /\ writers = [w \in Writers |-> <<"BTCUSDT", "binance">>]
    /\ sent = <<>>
    /\ insertThrew = FALSE
    /\ draws = 0
    /\ backfill_jobs = <<>>
    /\ jobHist = <<>>
    /\ run = <<>>
    /\ MbIdle
    /\ ApiIdle
    /\ lim = [maxJobs |-> 1, symbols |-> Symbols, exchanges |-> MbExchanges,
              batches |-> MbBatches, faults |-> {0, 1}, spans |-> MbSpanSet,
              bucketSizes |-> MbBucketSizes]

\* POST /api/backfill { symbol, exchanges, years, bucketSize }
MbPostBackfill ==
    \E symbol \in lim.symbols, span \in lim.spans, bucketSize \in lim.bucketSizes, nw \in NowSet :
    \E exch \in SeqsUpTo(lim.exchanges, lim.maxJobs - Cardinality(DOMAIN jobs)) :
       /\ MbSetDB(MbPostJobs(MbDB, symbol, exch, span, bucketSize, nw, 1))
       /\ UNCHANGED <<minute_bins, mbLog, nonMbVars>>

\* the window's fetch resolves with a batch of trades (lines 180-186)
MbFetchOk(j) ==
    /\ mbRun[j].pc = "fetching"
    /\ \E batch \in lim.batches, nw \in NowSet, faultAt \in lim.faults :
         LET row == jobs[j]
             r   == mbRun[j]
             res == ingestTrades(minute_bins, batch, row.symbol, row.exchange,
                                 r.bucketSize, nw, faultAt)
         IN
         /\ faultAt <= Len(batch)
         /\ IF Len(batch) = 0
            THEN /\ MbSetDB([MbUpdateJob(MbDB, j, "running", Msg("no trades window", r.s), nw)
                               EXCEPT !.run[j] = [r EXCEPT !.pc = "sleeping", !.okWindows = @ + 1]])
                 /\ UNCHANGED <<minute_bins, mbLog>>
            ELSE IF res.threw
            THEN /\ MbSetDB([MbUpdateJob(MbDB, j, "running", Msg("error window", r.s), nw)
                               EXCEPT !.run[j] = [r EXCEPT !.pc = "sleeping",
                                                           !.rolledBack = faultAt]])
                 /\ minute_bins' = res.bins
                 /\ UNCHANGED mbLog
            ELSE /\ MbSetDB([MbUpdateJob(MbDB, j, "running", Msg("processed window", r.s), nw)
                               EXCEPT !.run[j] = [r EXCEPT !.pc = "sleeping", !.okWindows = @ + 1]])
                 /\ minute_bins' = res.bins
                 /\ mbLog' = Append(mbLog, [symbol |-> row.symbol, exchange |-> row.exchange,
                                            bucketSize |-> r.bucketSize, batch |-> batch,
                                            now |-> nw])
         /\ UNCHANGED nonMbVars

\* an attempt of the window's fetch fails (pRetry: retries 2)
MbFetchError(j) ==
    /\ mbRun[j].pc = "fetching"
    /\ \E nw \in NowSet :
         MbSetDB(IF mbRun[j].attempt <= 2
                 THEN [MbDB EXCEPT !.run[j].attempt = @ + 1]
                 ELSE MbWindowError(MbDB, j, nw))
    /\ UNCHANGED <<minute_bins, mbLog, nonMbVars>>

\* the 200 ms pause is over: s += windowMs and the loop test
MbSleepDone(j) ==
    /\ mbRun[j].pc = "sleeping"
    /\ \E nw \in NowSet :
         MbSetDB(MbLoopTest([MbDB EXCEPT !.run[j].s = @ + mbWindowMs], j, nw))
    /\ UNCHANGED <<minute_bins, mbLog, nonMbVars>>

NextMB ==
    \/ MbPostBackfill
    \/ \E j \in DOMAIN mbRun : MbFetchOk(j)
    \/ \E j \in DOMAIN mbRun : MbFetchError(j)
    \/ \E j \in DOMAIN mbRun : MbSleepDone(j)

SpecMB == InitMB /\ [][NextMB]_vars

\* the minute-bin server under two concurrent jobs of the same symbol and
\* exchange and of the default bucket size, each of MaxWindows windows, an
\* upsert of a batch's second row failing or none
InitIngest ==
    /\ trades = {}
    /\ symbols = <<>>
    /\ writers = [w \in Writers |-> <<"BTCUSDT", "binance">>]
    /\ sent = <<>>
    /\ insertThrew = FALSE
    /\ draws = 0
    /\ backfill_jobs = <<>>
    /\ jobHist = <<>>
    /\ run = <<>>
    /\ MbIdle
    /\ ApiIdle
    /\ lim = [maxJobs |-> 2, symbols |-> {"BTCUSDT"}, exchanges |-> {"binance"},
              batches |-> {<<MbT1, MbT2>>}, faults |-> {0, 2},
              spans |-> {MaxWindows * mbWindowMs}, bucketSizes |-> {PRICE_BUCKET_SIZE}]

SpecIngest == InitIngest /\ [][NextMB]_vars

----------------------------------------------------------------------------
(* Properties of the minute-bin server (SpecMB) *)

\* C7: a job one of whose windows failed after its retries is never marked
\* done.
C7_FailedWindowNeverDone ==
    \A j \in DOMAIN mbRun :
       mbRun[j].failedWindows > 0 => jobs[j].status # "done"

\* the bins after the batches of log, ingested in order into empty bins
RECURSIVE MbReplay(_, _, _)
MbReplay(bins, log, i) ==
    IF i > Len(log) THEN bins
    ELSE MbReplay(IngestRows(bins, log[i].batch, log[i].symbol, log[i].exchange,
                             log[i].bucketSize, log[i].now, 1), log, i + 1)

Vols(bins) == [b \in DOMAIN bins |-> <<bins[b].buy_vol, bins[b].sell_vol>>]

\* C10: ingesting the same batch (same symbol, exchange, bucket size and
\* trades) a second time leaves every bin's buy_vol and sell_vol as the first
\* ingest left them (stated for the venues whose fetch returns the latest
\* trades whatever the window).
C10_ReingestKeepsVolumes ==
    (Len(mbLog) = 2 /\ mbLog[1] = mbLog[2] /\ mbLog[1].exchange \in MbSnapshotOnly)
       => Vols(minute_bins) = Vols(MbReplay(<<>>, <<mbLog[1]>>, 1))

----------------------------------------------------------------------------
(* GET /api/top-clusters of the trade-store server.  In this section a     *)
(* price and a bucket size are counted in units of 2^-30 (the price 100 is *)
(* the double 100 * 2^-30, about 0.0000000931), so that the 8 decimals     *)
(* kept by toFixed(8) are visible (10^-8 is about 10.7 units) and every    *)
(* value is a double exactly: the quotient, the rounding and the product   *)
(* of roundToBucket are then exact in IEEE arithmetic, and toFixed(8)      *)
(* rounds the exact value.  A query field holding 0, "" or {} is absent.   *)

MaxRows == 3

\* Number(req.query.bucket) || 1.0, which is 2^30 units
DefaultBucket == 1073741824
\* Number(req.query.periodMs) || 24 * 3600 * 1000
DefaultPeriodMs == 24 * 3600 * 1000
\* Number(req.query.limit) || 500
DefaultLimit == 500

\* Math.round(price / bucketSize) * bucketSize; Math.round(x) is floor(x + 1/2):
\* the quotient rounds up when twice the remainder reaches the bucket size
roundToBucket(price, bucketSize) ==
    LET q == price \div bucketSize
        r == price % bucketSize
    IN (q + (IF 2 * r >= bucketSize THEN 1 ELSE 0)) * bucketSize

\* n times the multiplication by 5 of the number int + frac / 2^22
RECURSIVE TimesFive(_, _, _)
TimesFive(int, frac, n) ==
    IF n = 0 THEN <<int, frac>>
    ELSE TimesFive(5 * int + ((5 * frac) \div 4194304), (5 * frac) % 4194304, n - 1)

\* x.toFixed(8): the string of the integer n for which n / 10^8 is nearest to
\* the exact value of x, the larger n at a tie; the string is given by n (two
\* keys are the same string exactly when their n are equal).  x units are
\* x * 10^8 / 2^30 = x * 5^8 / 2^22 hundred-millionths
toFixed8(x) ==
    LET s == TimesFive(x \div 4194304, x % 4194304, 8)
    IN s[1] + (IF 2 * s[2] >= 4194304 THEN 1 ELSE 0)

\* the rows the backfill of two exchanges can have stored
ClusterRows ==
    {Normalize(e, s, r, 1, Now0) : e \in {"binance", "okx"}, s \in Symbols,
                                   r \in {RawA, RawB, RawC}}

ClusterQueries ==
    [symbol : {"", "ETHUSDT"}, exchanges : {{"all"}, {"okx"}, {}},
     periodMs : {0, 4500}, bucket : {0, 1, 10}, limit : {0, 1, -1},
     sort : {"", "price_asc", "price_desc"}]

\* the exchanges of the SQL IN list
SelectedExchanges(tr, symbol, exchanges) ==
    IF "all" \in exchanges
    THEN LET recorded == {x.exchange : x \in {y \in tr : y.symbol = symbol}} IN
         IF recorded = {} THEN Exchanges ELSE recorded
    ELSE IF exchanges = {} THEN {"binance"} ELSE exchanges

\* SELECT price, qty, ts FROM trades WHERE symbol = ? AND exchange IN (...) AND ts >= ?
MatchingRows(tr, symbol, sel, since) ==
    {x \in tr : x.symbol = symbol /\ x.exchange \in sel /\ x.ts >= since}

\* the orders in which the SELECT (which has no ORDER BY) can return the rows
RowOrders(rows) ==
    {o \in [1..Cardinality(rows) -> rows] : \A i, j \in DOMAIN o : i # j => o[i] # o[j]}

\* buckets.get(key) || {...}; v.volume += r.qty; buckets.set(key, v)
AddToBuckets(m, r, bucket) ==
    LET pb  == roundToBucket(r.price, bucket)
        key == toFixed8(pb)
    IN IF \E i \in DOMAIN m : m[i].key = key
       THEN LET i == CHOOSE k \in DOMAIN m : m[k].key = key IN
            [m EXCEPT ![i] = [@ EXCEPT !.volume = @ + r.qty, !.lastTs = Max(@, r.ts)]]
       ELSE Append(m, [key |-> key, price |-> pb, volume |-> r.qty, lastTs |-> Max(0, r.ts)])

RECURSIVE Buckets(_, _, _, _)
Buckets(m, rows, bucket, i) ==
    IF i > Len(rows) THEN m
    ELSE Buckets(AddToBuckets(m, rows[i], bucket), rows, bucket, i + 1)

\* the comparator of arr.sort: a negative result puts a before b
Compare(a, b, sort) ==
    IF sort = "price_asc" THEN a.price - b.price
    ELSE IF sort = "price_desc" THEN b.price - a.price
    ELSE IF b.volume # a.volume THEN b.volume - a.volume
    ELSE a.price - b.price

\* x, which is earlier in the array than the elements of sorted, put into the
\* sorted sequence: after the elements that precede it, before its ties
InsertSorted(sorted, x, sort) ==
    LET before == {i \in DOMAIN sorted : Compare(x, sorted[i], sort) <= 0}
        at     == IF before = {} THEN Len(sorted) + 1
                  ELSE CHOOSE i \in before : \A k \in before : i <= k
    IN SubSeq(sorted, 1, at - 1) \o <<x>> \o SubSeq(sorted, at, Len(sorted))

\* Array.prototype.sort (stable)
RECURSIVE SortClusters(_, _, _)
SortClusters(arr, sort, i) ==
    IF i > Len(arr) THEN <<>>
    ELSE InsertSorted(SortClusters(arr, sort, i + 1), arr[i], sort)

\* arr.slice(0, limit): a negative limit counts from the end of the array
Slice(arr, limit) ==
    SubSeq(arr, 1, IF limit < 0 THEN Max(Len(arr) + limit, 0) ELSE Min(limit, Len(arr)))

\* the handler of GET /api/top-clusters on the table tr, the SELECT
\* returning its rows in the order rows
topClustersResponse(tr, q, rows) ==
    LET symbol == IF q.symbol = "" THEN "BTCUSDT" ELSE q.symbol
        sel    == SelectedExchanges(tr, symbol, q.exchanges)
        bucket == Or2(q.bucket, DefaultBucket)
        limit  == Or2(q.limit, DefaultLimit)
        m      == Buckets(<<>>, rows, bucket, 1)
        arr    == [i \in DOMAIN m |->
                     [price |-> m[i].price, volume |-> m[i].volume, lastTs |-> m[i].lastTs]]
    IN [symbol |-> symbol, exchanges |-> sel,
        clusters |-> IF Len(rows) = 0 THEN <<>>
                     ELSE Slice(SortClusters(arr, q.sort, 1), limit)]

\* the symbols table the inserts of the rows of tr leave
SymbolsOf(tr) ==
    [s \in {x.symbol : x \in tr} |->
        CHOOSE ts \in {x.ts : x \in {y \in tr : y.symbol = s}} :
            \A x \in {y \in tr : y.symbol = s} : x.ts <= ts]

InitClusters ==
    /\ trades \in {tr \in SUBSET ClusterRows :
                      /\ Cardinality(tr) <= MaxRows
                      /\ \A x, y \in tr : x.id = y.id => x = y}
    /\ symbols = SymbolsOf(trades)
    /\ writers = [w \in Writers |-> <<"BTCUSDT", "binance">>]
    /\ sent = <<>>
    /\ insertThrew = FALSE
    /\ draws = 1
    /\ backfill_jobs = <<>>
    /\ jobHist = <<>>
    /\ run = <<>>
    /\ lim = NoRequests
    /\ MbIdle
    /\ ApiIdle

\* GET /api/top-clusters (a behaviour follows one request)
GetTopClusters ==
    /\ topClusters = <<>>
    /\ \E q \in ClusterQueries, now \in NowSet :
       LET symbol == IF q.symbol = "" THEN "BTCUSDT" ELSE q.symbol
           sel    == SelectedExchanges(trades, symbol, q.exchanges)
           since  == now - Or2(q.periodMs, DefaultPeriodMs)
       IN \E rows \in RowOrders(MatchingRows(trades, symbol, sel, since)) :
            /\ topClusters' = [query |-> q, since |-> since,
                               response |-> topClustersResponse(trades, q, rows)]
            /\ UNCHANGED <<tableVars, driverVars, jobVars, lim, mbVars, priceReqs, topZones>>

NextClusters == GetTopClusters

SpecClusters == InitClusters /\ [][NextClusters]_vars

\* rows of one symbol whose prices fall in several buckets, two buckets of
\* the same volume among them
OrderRaws ==
    {[nid |-> 1, ts |-> 1000, p |-> 100, q |-> 1, side |-> "buy"],
     [nid |-> 2, ts |-> 1000, p |-> 120, q |-> 2, side |-> "sell"],
     [nid |-> 3, ts |-> 2000, p |-> 140, q |-> 1, side |-> "buy"],
     [nid |-> 4, ts |-> 2000, p |-> 100, q |-> 1, side |-> "sell"]}

OrderRows ==
    {Normalize(e, "ETHUSDT", r, 1, Now0) : e \in {"binance", "okx"}, r \in OrderRaws}

InitClusterOrder ==
    /\ trades \in {tr \in SUBSET OrderRows :
                      /\ Cardinality(tr) <= MaxRows
                      /\ \A x, y \in tr : x.id = y.id => x = y}
    /\ symbols = SymbolsOf(trades)
    /\ writers = [w \in Writers |-> <<"BTCUSDT", "binance">>]
    /\ sent = <<>>
    /\ insertThrew = FALSE
    /\ draws = 1
    /\ backfill_jobs = <<>>
    /\ jobHist = <<>>
    /\ run = <<>>
    /\ lim = NoRequests
    /\ MbIdle
    /\ ApiIdle

SpecClusterOrder == InitClusterOrder /\ [][NextClusters]_vars

----------------------------------------------------------------------------
(* Properties of GET /api/top-clusters (SpecClusters) *)

RECURSIVE SumQty(_)
SumQty(rows) ==
    IF rows = {} THEN 0
    ELSE LET x == CHOOSE y \in rows : TRUE IN x.qty + SumQty(rows \ {x})

RECURSIVE SumVolume(_, _)
SumVolume(clusters, i) ==
    IF i > Len(clusters) THEN 0 ELSE clusters[i].volume + SumVolume(clusters, i + 1)

Answered == topClusters # <<>>

\* the rows the answered query matches and its bucket size
AnsweredRows ==
    MatchingRows(trades, topClusters.response.symbol, topClusters.response.exchanges,
                 topClusters.since)
AnsweredBucket == Or2(topClusters.query.bucket, DefaultBucket)

\* C11: when limit does not truncate, every matching trade of price p is
\* counted in exactly one cluster, the cluster of price round(p/b)*b, each
\* cluster's volume is the sum of the quantities of the trades of its bucket,
\* and the volumes sum to the quantities of the matching trades.
C11_BucketingConserves ==
    (Answered /\ topClusters.query.limit = 0) =>
       LET cl == topClusters.response.clusters IN
       /\ \A r \in AnsweredRows :
             Cardinality({i \in DOMAIN cl :
                            cl[i].price = roundToBucket(r.price, AnsweredBucket)}) = 1
       /\ \A i \in DOMAIN cl :
             cl[i].volume = SumQty({r \in AnsweredRows :
                                      roundToBucket(r.price, AnsweredBucket) = cl[i].price})
       /\ SumVolume(cl, 1) = SumQty(AnsweredRows)

\* cluster a comes strictly before cluster b in the order of the request
Precedes(a, b, sort) ==
    IF sort = "price_asc" THEN a.price < b.price
    ELSE IF sort = "price_desc" THEN a.price > b.price
    ELSE a.volume > b.volume \/ (a.volume = b.volume /\ a.price < b.price)

\* C25: the clusters of an answer hold each bucket price at most once, number
\* at most limit (a limit below zero admits none), and are in the requested
\* order (by default volume descending, ties by ascending price; price
\* ascending for price_asc, price descending for price_desc); when limit
\* truncates, the clusters kept are the first limit of that order: no cluster
\* left out comes before a kept one.
C25_ClustersOrderedAndLimited ==
    Answered =>
       LET cl    == topClusters.response.clusters
           sort  == topClusters.query.sort
           limit == Max(Or2(topClusters.query.limit, DefaultLimit), 0)
       IN /\ \A i, j \in DOMAIN cl : i # j => cl[i].price # cl[j].price
          /\ Len(cl) <= limit
          /\ \A i, j \in DOMAIN cl : i < j => Precedes(cl[i], cl[j], sort)
          /\ \E o \in RowOrders(AnsweredRows) :
                LET full == Buckets(<<>>, o, AnsweredBucket, 1) IN
                /\ Len(cl) = Min(limit, Len(full))
                /\ \A i \in DOMAIN cl : \E k \in DOMAIN full :
                      /\ cl[i].price = full[k].price
                      /\ cl[i].volume = full[k].volume
                /\ \A k \in DOMAIN full :
                      (\A i \in DOMAIN cl : cl[i].price # full[k].price)
                         => \A i \in DOMAIN cl : ~Precedes(full[k], cl[i], sort)

----------------------------------------------------------------------------
(* GET /api/top-zones of the minute-bin server.  A query field holding 0,  *)
(* "" or {} is absent.                                                      *)

DEFAULT_LIMIT == 300

ZoneQueries ==
    [symbol : {"", "BTCUSDT"}, exchanges : {{}, {"binance", "okx"}},
     periodMs : {0}, bucket : MbBucketSizes \cup {0}, limit : {0, 1},
     sort : {"", "price_asc"}]

\* WHERE symbol = ? AND minute_ts >= ? AND exchange IN (...)
ZoneBins(bins, symbol, exchanges, since) ==
    {id \in DOMAIN bins : /\ bins[id].symbol = symbol
                          /\ bins[id].minute_ts >= since
                          /\ bins[id].exchange \in exchanges}

\* SUM(field) over the rows ids
RECURSIVE SumField(_, _, _)
SumField(bins, ids, field) ==
    IF ids = {} THEN 0
    ELSE LET id == CHOOSE x \in ids : TRUE
         IN bins[id][field] + SumField(bins, ids \ {id}, field)

MaxOf(S) == CHOOSE x \in S : \A y \in S : y <= x

\* the groups of GROUP BY bucket, which SQLite returns in the order of the
\* grouping column
RECURSIVE Ascending(_)
Ascending(S) ==
    IF S = {} THEN <<>>
    ELSE LET m == CHOOSE x \in S : \A y \in S : x <= y
         IN <<m>> \o Ascending(S \ {m})

\* lines 297-303: one zone for every group
Zone(bins, ids, bucket) ==
    LET g    == {id \in ids : bins[id].bucket = bucket}
        buy  == SumField(bins, g, "buy_vol")
        sell == SumField(bins, g, "sell_vol")
    IN [price |-> bucket, buy |-> buy, sell |-> sell, delta |-> buy - sell,
        volume |-> buy + sell, lastTs |-> MaxOf({bins[id].last_ts : id \in g})]

Abs(x) == IF x < 0 THEN -x ELSE x

\* the comparators of lines 306-309; any other sort leaves the order
ZoneCompare(a, b, sort) ==
    IF sort = "delta_desc" THEN Abs(b.delta) - Abs(a.delta)
    ELSE IF sort = "volume_desc" THEN b.volume - a.volume
    ELSE IF sort = "price_asc" THEN a.price - b.price
    ELSE IF sort = "price_desc" THEN b.price - a.price
    ELSE 0

\* x, which is earlier in the array than the elements of sorted, put into the
\* sorted sequence: after the elements that precede it, before its ties
ZoneInsert(sorted, x, sort) ==
    LET before == {i \in DOMAIN sorted : ZoneCompare(x, sorted[i], sort) <= 0}
        at     == IF before = {} THEN Len(sorted) + 1
                  ELSE CHOOSE i \in before : \A k \in before : i <= k
    IN SubSeq(sorted, 1, at - 1) \o <<x>> \o SubSeq(sorted, at, Len(sorted))

\* zones.sort (stable)
RECURSIVE SortZones(_, _, _)
SortZones(arr, sort, i) ==
    IF i > Len(arr) THEN <<>>
    ELSE ZoneInsert(SortZones(arr, sort, i + 1), arr[i], sort)

\* the handler of GET /api/top-zones: the bucket of the query is read
\* (line 265) and used nowhere
topZonesResponse(bins, q, now) ==
    LET exchanges  == IF q.exchanges = {} THEN {"binance"} ELSE q.exchanges
        periodMs   == Or2(q.periodMs, 24 * 3600 * 1000)
        bucketSize == Or2(q.bucket, PRICE_BUCKET_SIZE)
        limit      == Or2(q.limit, DEFAULT_LIMIT)
        sort       == IF q.sort = "" THEN "delta_desc" ELSE q.sort
        since      == now - periodMs
        ids        == ZoneBins(bins, q.symbol, exchanges, since)
        data       == Ascending({bins[id].bucket : id \in ids})
        zones      == [i \in DOMAIN data |-> Zone(bins, ids, data[i])]
    IN IF q.symbol = "" THEN [status |-> 400, clusters |-> <<>>]
       ELSE [status |-> 200, clusters |-> Slice(SortZones(zones, sort, 1), limit)]

InitZones ==
    /\ trades = {}
    /\ symbols = <<>>
    /\ writers = [w \in Writers |-> <<"BTCUSDT", "binance">>]
    /\ sent = <<>>
    /\ insertThrew = FALSE
    /\ draws = 0
    /\ backfill_jobs = <<>>
    /\ jobHist = <<>>
    /\ run = <<>>
    /\ MbIdle
    /\ ApiIdle
    /\ lim = [maxJobs |-> 1, symbols |-> {"BTCUSDT"}, exchanges |-> {"binance", "okx"},
              batches |-> MbBatches, faults |-> {0}, spans |-> MbSpanSet,
              bucketSizes |-> MbBucketSizes]

\* GET /api/top-zones (a behaviour follows one request)
GetTopZones ==
    /\ topZones = <<>>
    /\ \E q \in ZoneQueries, now \in NowSet :
         topZones' = [query |-> q, now |-> now,
                      response |-> topZonesResponse(minute_bins, q, now)]
    /\ UNCHANGED <<tableVars, driverVars, jobVars, lim, mbVars, topClusters, priceReqs>>

NextZones ==
    \/ NextMB
    \/ GetTopZones

SpecZones == InitZones /\ [][NextZones]_vars

----------------------------------------------------------------------------
(* Properties of GET /api/top-zones (SpecZones) *)

\* the trades ingested before the answered request that the query selects:
\* symbol, exchanges and period of the query
RECURSIVE LoggedTrades(_, _)
LoggedTrades(log, i) ==
    IF i > Len(log) THEN {}
    ELSE {[n |-> i, k |-> k, exchange |-> log[i].exchange, symbol |-> log[i].symbol,
           price |-> log[i].batch[k].price, qty |-> log[i].batch[k].qty,
           minute_ts |-> toMinuteTs(Or2(log[i].batch[k].ts, log[i].now))] :
              k \in DOMAIN log[i].batch}
         \cup LoggedTrades(log, i + 1)

ZoneTrades ==
    LET q == topZones.query IN
    {t \in LoggedTrades(mbLog, 1) :
        /\ t.symbol = q.symbol
        /\ t.exchange \in (IF q.exchanges = {} THEN {"binance"} ELSE q.exchanges)
        /\ t.minute_ts >= topZones.now - Or2(q.periodMs, 24 * 3600 * 1000)}

ZoneBucket == Or2(topZones.query.bucket, PRICE_BUCKET_SIZE)

\* C23: GET /api/top-zones with bucket size b answers with clusters keyed by
\* round(p/b)*b: when limit does not truncate, every cluster price is
\* round(p/b)*b of an ingested trade of the period, and every such trade's
\* quantity is in the volume of the cluster round(p/b)*b, whatever bucket size
\* the backfill used.
C23_ZonesKeyedByQueryBucket ==
    (topZones # <<>> /\ topZones.response.status = 200 /\ topZones.query.limit = 0) =>
       LET cl == topZones.response.clusters IN
       /\ \A i \in DOMAIN cl :
             \E t \in ZoneTrades : cl[i].price = bucketPrice(t.price, ZoneBucket)
       /\ \A t \in ZoneTrades :
             \E i \in DOMAIN cl :
                /\ cl[i].price = bucketPrice(t.price, ZoneBucket)
                /\ cl[i].volume =
                      SumQty({u \in ZoneTrades :
                                bucketPrice(u.price, ZoneBucket) = cl[i].price})

----------------------------------------------------------------------------
(* Properties of ingestTrades (SpecIngest) *)

\* the quantity the trades K of a batch add to column side of the bin id
RECURSIVE BatchVol(_, _, _, _, _)
BatchVol(e, K, id, side, i) ==
    IF i > Len(e.batch) THEN 0
    ELSE (IF /\ i \in K
             /\ BinRow(e.batch[i], e.symbol, e.exchange, e.bucketSize, e.now).id = id
             /\ e.batch[i].side = side
          THEN e.batch[i].qty ELSE 0) + BatchVol(e, K, id, side, i + 1)

VolAt(bins, id, field) == IF id \in DOMAIN bins THEN bins[id][field] ELSE 0

\* C27: ingestTrades is all-or-nothing per batch: a step that changes
\* minute_bins is the ingest of one job's batch and adds every trade of that
\* batch to its bin and nothing else; a batch one of whose upserts fails
\* leaves every bin as it was; and the step is the step of one job only.
C27_IngestAllOrNothing ==
    [][/\ minute_bins' # minute_bins =>
            /\ Len(mbLog') = Len(mbLog) + 1
            /\ Cardinality({j \in DOMAIN mbRun : mbRun'[j] # mbRun[j]}) = 1
            /\ LET e == mbLog'[Len(mbLog')] IN
                  \A id \in DOMAIN minute_bins' :
                     /\ VolAt(minute_bins', id, "buy_vol") =
                           VolAt(minute_bins, id, "buy_vol")
                              + BatchVol(e, DOMAIN e.batch, id, "buy", 1)
                     /\ VolAt(minute_bins', id, "sell_vol") =
                           VolAt(minute_bins, id, "sell_vol")
                              + BatchVol(e, DOMAIN e.batch, id, "sell", 1)
       /\ \A j \in DOMAIN mbRun :
             mbRun'[j].rolledBack # mbRun[j].rolledBack => minute_bins' = minute_bins]_vars

\* C27 witness: the batch of one job was rolled back at its second row while
\* the bins hold the whole batch of the other job and nothing else
C27_Witness ==
    \E j, k \in DOMAIN mbRun :
       /\ j # k
       /\ mbRun[j].rolledBack = 2 /\ mbRun[j].okWindows = 0
       /\ mbRun[k].rolledBack = 0 /\ mbRun[k].okWindows = 1
       /\ Len(mbLog) = 1 /\ mbLog[1].bucketSize = mbRun[k].bucketSize
       /\ Cardinality(DOMAIN minute_bins) = 2
       /\ \A id \in DOMAIN minute_bins :
             minute_bins[id].buy_vol + minute_bins[id].sell_vol \in {MbT1.qty, MbT2.qty}

----------------------------------------------------------------------------
(* GET /api/current-price of the trade-store server.  One action is one    *)
(* turn of the event loop: the handler up to its next axios.get.  A venue's *)
(* reply either threw (the request failed) or holds the price field of its *)
(* payload, 0 when the payload holds no price.                             *)

MaxPriceReqs == 2

\* the try blocks of the handler, in order
PriceVenues == <<"binance", "okx", "bybit">>

VenueReplies == [threw : {FALSE}, price : {0, 100, 101}] \cup {[threw |-> TRUE, price |-> 0]}

NoPrice(reply) == reply.threw \/ reply.price = 0

\* variant: after a failed venue the handler asks that venue again
AfterFailureAsksAgain(r, reply) ==
    [r EXCEPT !.replies = Append(@, reply), !.asked = Append(@, PriceVenues[r.at])]

\* the venue at r.at failed: the next try block, or the 500 after the last
AfterFailure(r, reply) ==
    IF r.at < Len(PriceVenues)
    THEN [r EXCEPT !.at = @ + 1, !.replies = Append(@, reply),
                   !.asked = Append(@, PriceVenues[r.at + 1])]
    ELSE [r EXCEPT !.pc = "responded", !.replies = Append(@, reply),
                   !.response = [status |-> 500, error |-> "no price source available"]]

\* the reply of the venue at r.at reaches the handler
AfterReply(r, reply) ==
    IF NoPrice(reply) THEN AfterFailure(r, reply)
    ELSE [r EXCEPT !.pc = "responded", !.replies = Append(@, reply),
                   !.response = [status |-> 200, price |-> ParseFloat(reply.price),
                                 source |-> PriceVenues[r.at]]]

InitPrice ==
    /\ trades = {}
    /\ symbols = <<>>
    /\ writers = [w \in Writers |-> <<"BTCUSDT", "binance">>]
    /\ sent = <<>>
    /\ insertThrew = FALSE
    /\ draws = 0
    /\ backfill_jobs = <<>>
    /\ jobHist = <<>>
    /\ run = <<>>
    /\ lim = NoRequests
    /\ MbIdle
    /\ ApiIdle

\* GET /api/current-price arrives: the handler asks the first venue
GetCurrentPrice ==
    /\ Cardinality(DOMAIN priceReqs) < MaxPriceReqs
    /\ \E symbol \in Symbols \cup {""} :
         priceReqs' = priceReqs @@ (Cardinality(DOMAIN priceReqs) + 1 :>
            [pc |-> "asking", symbol |-> IF symbol = "" THEN "BTCUSDT" ELSE symbol,
             at |-> 1, asked |-> <<PriceVenues[1]>>, replies |-> <<>>,
             response |-> <<>>])
    /\ UNCHANGED <<tableVars, driverVars, jobVars, lim, mbVars, topClusters, topZones>>

\* the venue asked replies, or its request fails
VenueReply(i) ==
    /\ priceReqs[i].pc = "asking"
    /\ \E reply \in VenueReplies :
         priceReqs' = [priceReqs EXCEPT ![i] = AfterReply(@, reply)]
    /\ UNCHANGED <<tableVars, driverVars, jobVars, lim, mbVars, topClusters, topZones>>

NextPrice ==
    \/ GetCurrentPrice
    \/ \E i \in DOMAIN priceReqs : VenueReply(i)

SpecPrice == InitPrice /\ [][NextPrice]_vars

----------------------------------------------------------------------------
(* Properties of GET /api/current-price (SpecPrice) *)

\* C12: the venues are asked in the order binance, okx, bybit, each once and
\* only after the one before it failed; the response carries the price and
\* the source of the first venue that gave a price; when all three failed
\* the response is an error.
C12_FirstVenueWins ==
    \A i \in DOMAIN priceReqs :
       LET r == priceReqs[i] IN
       /\ Len(r.asked) <= Len(PriceVenues)
       /\ r.asked = SubSeq(PriceVenues, 1, Len(r.asked))
       /\ \A k \in 1..(Len(r.asked) - 1) : NoPrice(r.replies[k])
       /\ r.pc = "asking" => (Len(r.replies) = Len(r.asked) - 1 /\ r.response = <<>>)
       /\ r.pc = "responded" =>
             /\ Len(r.replies) = Len(r.asked)
             /\ IF NoPrice(r.replies[Len(r.replies)])
                THEN Len(r.asked) = Len(PriceVenues) /\ r.response.status = 500
                ELSE /\ r.response.status = 200
                     /\ r.response.price = r.replies[Len(r.replies)].price
                     /\ r.response.source = r.asked[Len(r.asked)]

\* C12 witness: a request answered by the second venue after the first
\* failed, and a request that failed at all three
C12_Witness ==
    /\ \E i \in DOMAIN priceReqs :
          /\ priceReqs[i].pc = "responded"
          /\ priceReqs[i].asked = <<"binance", "okx">>
          /\ priceReqs[i].response.status = 200
          /\ priceReqs[i].response.source = "okx"
    /\ \E i \in DOMAIN priceReqs :
          /\ priceReqs[i].pc = "responded"
          /\ Len(priceReqs[i].asked) = 3
          /\ priceReqs[i].response.status = 500

====
